---------------------------- MODULE Spec2Model ----------------------------
(***************************************************************************)
(* Kanban data layer (src-tauri): boards, ordered columns and ordered      *)
(* cards in one SQLite store behind Database::with_connection.             *)
(*                                                                         *)
(* Every with_connection call is one step of its caller: the parking_lot   *)
(* mutex makes the closure atomic with respect to the other callers, and   *)
(* every SQL statement runs in autocommit mode.  A command that calls      *)
(* with_connection twice (create_column / create_card without an explicit  *)
(* order) is two steps, and other callers may run in between.  The guard   *)
(* itself (lock, closure, unlock) is modelled separately in SpecGuard.     *)
(*                                                                         *)
(* REAL "order" values are modelled as integers, TEXT timestamps by the    *)
(* reading of a non-decreasing clock, UUIDs by per-table counters (an id   *)
(* is never handed out twice).                                             *)
(***************************************************************************)
EXTENDS Integers, Sequences, FiniteSets, TLC

\* ------------------------------------------------------------------ bounds
\* ids Uuid::new_v4 may hand out per table
MaxBoards == 2
MaxColumns == 2
MaxCards == 2
\* commands invoked in one run
MaxOps == 2
\* last reading of the clock (the first is 1)
MaxTime == 2
\* longest Vec of {id, order} pairs given to a batch command
MaxBatch == 2
\* threads invoking commands
NumCallers == 2
\* threads inside the connection guard
NumThreads == 3
\* how many times run_migrations is called (starts of the application)
MaxRuns == 3
\* PRAGMA busy_timeout = 5000 (milliseconds)
BusyTimeout == 5000
\* how many steps of waiting make up the busy timeout
WaitSteps == 5
\* how many earlier seconds a snapshot file of the directory can date from
MaxPast == 4
\* cleanup_old_backups(&backups_dir, 7) at startup
KeepStartup == 7
\* how many launches, exits and backup commands are taken
MaxBackupOps == 3
\* the largest keep_count the command is called with
MaxKeep == 2
\* how many times the application is started
MaxLaunches == 2
\* how many files of the backups directory fs::remove_file fails on in one call
MaxFails == 1

Callers == 1..NumCallers
Threads == 1..NumThreads
BoardIds == 1..MaxBoards
ColumnIds == 1..MaxColumns
CardIds == 1..MaxCards
Names == {"a", "b"}
Descriptions == {"d"}
Orders == {-1, 1, 2}

\* ------------------------------------------------------------ Option<T>
None == <<>>
Some(x) == <<x>>
Opt(S) == {None} \cup {Some(x) : x \in S}
unwrap_or(o, dflt) == IF o = None THEN dflt ELSE o[1]

\* ------------------------------------------------------------ the store
VARIABLES
    db,      \* the store: [boards, columns, cards], each a function id -> row
    clock,   \* what Utc::now() reads
    uuid,    \* ids handed out so far, per table
    ops,     \* commands invoked so far
    pend,    \* per caller: the create command between its two with_connection calls
    ret,     \* the command that returned in the last step, with the store before it
    mutex,   \* Database.conn: the caller holding the parking_lot mutex, 0 when free
    gpc,     \* per thread: where it is inside with_connection / run_migrations
    gfn,     \* per thread: which of the two it called last
    gres,    \* per thread: what its closure returned last
    gwait,   \* per thread: the milliseconds it has waited so far inside lock()
    schema,  \* the tables and indexes the database file holds
    ledger,  \* the rows of _migrations, in insertion order: [name, applied_at]
    mig,     \* migrations::run_migrations: [pc, i, j, res, runs]
    bdir,    \* the backups directory: [db : name -> [size, made], wal, shm : sets of names]
    store,   \* kanban.db and its side files: [exists, size, wal, shm]
    app,     \* "down", or "up" once run() has set the application up
    bseq,    \* how many snapshot files have been written so far
    bret,    \* the backup command (or launch) of the last step, with bdir before it
    setup    \* run()'s setup closure: [pc, had_store, name, launches]

dbvars == <<db, clock, uuid, ops, pend, ret>>
gvars == <<mutex, gpc, gfn, gres, gwait>>
mvars == <<schema, ledger, mig>>
bvars == <<bdir, store, app, bseq, bret, setup>>
vars == <<db, clock, uuid, ops, pend, ret, mutex, gpc, gfn, gres, gwait, schema, ledger, mig,
          bdir, store, app, bseq, bret, setup>>

EmptyDb == [boards |-> <<>>, columns |-> <<>>, cards |-> <<>>]

Insert(tbl, id, row) == [x \in DOMAIN tbl \cup {id} |-> IF x = id THEN row ELSE tbl[x]]
DeleteWhere(tbl, ids) == [x \in DOMAIN tbl \ ids |-> tbl[x]]
\* variant: the UPDATE without its WHERE id = ?
UpdateWhereId_every_row(tbl, id, set) ==
    [x \in DOMAIN tbl |->
        [f \in DOMAIN tbl[x] |-> IF f \in DOMAIN set THEN set[f] ELSE tbl[x][f]]]
\* UPDATE tbl SET <set> WHERE id = ? : set gives the new value of each column named
UpdateWhereId(tbl, id, set) ==
    [x \in DOMAIN tbl |->
        IF x = id
        THEN [f \in DOMAIN tbl[x] |-> IF f \in DOMAIN set THEN set[f] ELSE tbl[x][f]]
        ELSE tbl[x]]
\* "col = ?" pushed onto the SET list when the input holds a value for it
SetIf(o, col) == IF o = None THEN [f \in {} |-> 0] ELSE col :> o[1]

\* variant: the foreign key of columns.board_id not enforced
fk_columns_board_off(d, board_id) == TRUE
\* FOREIGN KEY (board_id) REFERENCES boards(id), enforced (PRAGMA foreign_keys = ON)
fk_columns_board(d, board_id) == board_id \in DOMAIN d.boards
\* variant: the foreign key of cards.column_id not enforced
fk_cards_column_off(d, column_id) == TRUE
\* FOREIGN KEY (column_id) REFERENCES columns(id)
fk_cards_column(d, column_id) == column_id \in DOMAIN d.columns

\* variant: cards.column_id without ON DELETE CASCADE
cascade_cards_off(d, column_ids) == d.cards
\* ON DELETE CASCADE of cards.column_id: the cards of the deleted columns go too
cascade_cards(d, column_ids) ==
    DeleteWhere(d.cards, {k \in DOMAIN d.cards : d.cards[k].column_id \in column_ids})

\* ON DELETE CASCADE of columns.board_id: the columns of the deleted boards go too
cascade_columns(d, board_ids) ==
    DeleteWhere(d.columns, {k \in DOMAIN d.columns : d.columns[k].board_id \in board_ids})

Ok(d) == [db |-> d, ok |-> TRUE]
Err(d) == [db |-> d, ok |-> FALSE]

\* ------------------------------------------------------------- boards.rs
create_board_closure(d, id, input, now) ==
    Ok([d EXCEPT !.boards = Insert(@, id,
        [name |-> input.name, last_opened_at |-> Some(now),
         created_at |-> now, updated_at |-> now])])

\* variant: the row is not read back, the command answers Ok whether or not the
\* id matched
update_board_closure_no_read_back(d, id, input, now) ==
    Ok(IF input.name # None
       THEN [d EXCEPT !.boards = UpdateWhereId(@, id,
                [name |-> input.name[1], updated_at |-> now])]
       ELSE d)

update_board_closure(d, id, input, now) ==
    LET d1 == IF input.name # None
              THEN [d EXCEPT !.boards = UpdateWhereId(@, id,
                       [name |-> input.name[1], updated_at |-> now])]
              ELSE d
    IN  IF id \in DOMAIN d1.boards THEN Ok(d1) ELSE Err(d1)

delete_board_closure(d, id) ==
    LET gone == {k \in DOMAIN d.columns : d.columns[k].board_id = id}
    IN  Ok([boards |-> DeleteWhere(d.boards, {id}),
            columns |-> cascade_columns(d, {id}),
            cards |-> cascade_cards(d, gone)])

\* variant: opening a board also sets its updated_at
set_last_opened_board_closure_touch(d, id, now) ==
    Ok([d EXCEPT !.boards = UpdateWhereId(@, id,
        [last_opened_at |-> Some(now), updated_at |-> now])])

set_last_opened_board_closure(d, id, now) ==
    Ok([d EXCEPT !.boards = UpdateWhereId(@, id,
        [last_opened_at |-> Some(now)])])

\* ------------------------------------------------------------ columns.rs
\* variant: the maximum taken over the rows that are not archived only
max_order_columns_active(d, board_id) ==
    LET rows == {k \in DOMAIN d.columns :
                     d.columns[k].board_id = board_id /\ ~d.columns[k].archived}
    IN  IF rows = {} THEN None
        ELSE Some(CHOOSE m \in {d.columns[k].order : k \in rows} :
                      \A k \in rows : d.columns[k].order <= m)
\* SELECT MAX("order") FROM columns WHERE board_id = ? : NULL when no row matches
max_order_columns(d, board_id) ==
    LET rows == {k \in DOMAIN d.columns : d.columns[k].board_id = board_id}
    IN  IF rows = {} THEN None
        ELSE Some(CHOOSE m \in {d.columns[k].order : k \in rows} :
                      \A k \in rows : d.columns[k].order <= m)

\* variant: the maximum itself, not the maximum plus 1
create_column_order_closure_max(d, input) ==
    unwrap_or(max_order_columns(d, input.board_id), 1)

\* the first with_connection of create_column: the order the new column will get
create_column_order_closure(d, input) ==
    unwrap_or(max_order_columns(d, input.board_id), 0) + 1

\* the INSERT of create_column
create_column_closure(d, id, input, order, now) ==
    IF fk_columns_board(d, input.board_id)
    THEN Ok([d EXCEPT !.columns = Insert(@, id,
             [board_id |-> input.board_id, name |-> input.name, order |-> order,
              archived |-> FALSE, created_at |-> now, updated_at |-> now])])
    ELSE Err(d)

update_column_closure(d, id, input, now) ==
    LET set == [updated_at |-> now] @@ SetIf(input.name, "name")
                   @@ SetIf(input.order, "order") @@ SetIf(input.archived, "archived")
        d1 == [d EXCEPT !.columns = UpdateWhereId(@, id, set)]
    IN  IF id \in DOMAIN d1.columns THEN Ok(d1) ELSE Err(d1)

\* variant: the cascade takes the cards of every column
delete_column_closure_all_cards(d, id) ==
    Ok([d EXCEPT !.columns = DeleteWhere(@, {id}),
                 !.cards = IF id \in DOMAIN d.columns
                           THEN cascade_cards(d, DOMAIN d.columns) ELSE @])

delete_column_closure(d, id) ==
    Ok([d EXCEPT !.columns = DeleteWhere(@, {id}),
                 !.cards = cascade_cards(d, {id})])

RECURSIVE reorder_columns_loop(_, _, _)
reorder_columns_loop(d, updates, now) ==
    IF updates = <<>> THEN d
    ELSE reorder_columns_loop(
             [d EXCEPT !.columns = UpdateWhereId(@, Head(updates).id,
                 [order |-> Head(updates).order, updated_at |-> now])],
             Tail(updates), now)

\* variant: the loop stops after the first pair
reorder_columns_closure_first_only(d, updates, now) ==
    Ok(reorder_columns_loop(d, IF updates = <<>> THEN <<>> ELSE <<Head(updates)>>, now))

reorder_columns_closure(d, updates, now) == Ok(reorder_columns_loop(d, updates, now))

\* every permutation of the rows DOMAIN key that ORDER BY "order" ASC may return
\* (SQL leaves the order of equal keys open)
OrderByAsc(key) ==
    {s \in [1..Cardinality(DOMAIN key) -> DOMAIN key] :
        /\ \A i, j \in DOMAIN s : i # j => s[i] # s[j]
        /\ \A i, j \in DOMAIN s : i < j => key[s[i]] <= key[s[j]]}

\* variant: the query without its ORDER BY
get_columns_for_board_unordered(d, board_id) ==
    OrderByAsc([k \in {j \in DOMAIN d.columns : d.columns[j].board_id = board_id /\ ~d.columns[j].archived}
                   |-> 0])

\* listColumns: the result sets the query may return, each a sequence of row ids
get_columns_for_board(d, board_id) ==
    OrderByAsc([k \in {j \in DOMAIN d.columns : d.columns[j].board_id = board_id /\ ~d.columns[j].archived}
                   |-> d.columns[k].order])

\* -------------------------------------------------------------- cards.rs
max_order_cards(d, column_id) ==
    LET rows == {k \in DOMAIN d.cards : d.cards[k].column_id = column_id}
    IN  IF rows = {} THEN None
        ELSE Some(CHOOSE m \in {d.cards[k].order : k \in rows} :
                      \A k \in rows : d.cards[k].order <= m)

create_card_order_closure(d, input) ==
    unwrap_or(max_order_cards(d, input.column_id), 0) + 1

create_card_closure(d, id, input, order, now) ==
    IF fk_cards_column(d, input.column_id)
    THEN Ok([d EXCEPT !.cards = Insert(@, id,
             [column_id |-> input.column_id, title |-> input.title,
              description |-> input.description, order |-> order,
              archived |-> FALSE, created_at |-> now, updated_at |-> now])])
    ELSE Err(d)

update_card_closure(d, id, input, now) ==
    LET set == [updated_at |-> now] @@ SetIf(input.title, "title")
                   @@ SetIf(IF input.description = None THEN None
                            ELSE Some(input.description), "description")
                   @@ SetIf(input.order, "order") @@ SetIf(input.archived, "archived")
        d1 == [d EXCEPT !.cards = UpdateWhereId(@, id, set)]
    IN  IF id \in DOMAIN d1.cards THEN Ok(d1) ELSE Err(d1)

delete_card_closure(d, id) == Ok([d EXCEPT !.cards = DeleteWhere(@, {id})])

\* variant: the UPDATE sets the order only and leaves column_id
move_card_closure_keeps_column(d, id, input, now) ==
    IF id \in DOMAIN d.cards /\ ~fk_cards_column(d, input.column_id)
    THEN Err(d)
    ELSE LET d1 == [d EXCEPT !.cards = UpdateWhereId(@, id,
                       [order |-> input.order, updated_at |-> now])]
         IN  IF id \in DOMAIN d1.cards THEN Ok(d1) ELSE Err(d1)

\* variant: a target column of another board than the card's is refused
move_card_closure_same_board(d, id, input, now) ==
    IF id \in DOMAIN d.cards /\ ~fk_cards_column(d, input.column_id)
    THEN Err(d)
    ELSE IF /\ id \in DOMAIN d.cards
            /\ d.columns[input.column_id].board_id
                   # d.columns[d.cards[id].column_id].board_id
         THEN Err(d)
         ELSE LET d1 == [d EXCEPT !.cards = UpdateWhereId(@, id,
                            [column_id |-> input.column_id, order |-> input.order,
                             updated_at |-> now])]
              IN  IF id \in DOMAIN d1.cards THEN Ok(d1) ELSE Err(d1)

move_card_closure(d, id, input, now) ==
    IF id \in DOMAIN d.cards /\ ~fk_cards_column(d, input.column_id)
    THEN Err(d)   \* the UPDATE fails on the foreign key: no row changes
    ELSE LET d1 == [d EXCEPT !.cards = UpdateWhereId(@, id,
                       [column_id |-> input.column_id, order |-> input.order,
                        updated_at |-> now])]
         IN  IF id \in DOMAIN d1.cards THEN Ok(d1) ELSE Err(d1)

RECURSIVE batch_update_card_orders_loop(_, _, _)
batch_update_card_orders_loop(d, updates, now) ==
    IF updates = <<>> THEN d
    ELSE batch_update_card_orders_loop(
             [d EXCEPT !.cards = UpdateWhereId(@, Head(updates).id,
                 [order |-> Head(updates).order, updated_at |-> now])],
             Tail(updates), now)

batch_update_card_orders_closure(d, updates, now) ==
    Ok(batch_update_card_orders_loop(d, updates, now))

\* variant: the query without its archived = 0 condition
get_cards_for_column_all(d, column_id) ==
    OrderByAsc([k \in {j \in DOMAIN d.cards : d.cards[j].column_id = column_id}
                   |-> d.cards[k].order])

\* listCardsForColumn
get_cards_for_column(d, column_id) ==
    OrderByAsc([k \in {j \in DOMAIN d.cards : d.cards[j].column_id = column_id /\ ~d.cards[j].archived}
                   |-> d.cards[k].order])

\* variant: the query also asks for col.archived = 0
get_cards_for_board_active_columns(d, board_id) ==
    OrderByAsc([k \in {j \in DOMAIN d.cards :
                           /\ d.cards[j].column_id \in DOMAIN d.columns
                           /\ d.columns[d.cards[j].column_id].board_id = board_id
                           /\ ~d.columns[d.cards[j].column_id].archived
                           /\ ~d.cards[j].archived}
                   |-> d.cards[k].order])

\* listCardsForBoard: INNER JOIN columns, no filter on the column's archived flag
get_cards_for_board(d, board_id) ==
    OrderByAsc([k \in {j \in DOMAIN d.cards :
                           /\ d.cards[j].column_id \in DOMAIN d.columns
                           /\ d.columns[d.cards[j].column_id].board_id = board_id
                           /\ ~d.cards[j].archived}
                   |-> d.cards[k].order])

\* ------------------------------------------------------- command inputs
CreateBoardInput == [name : Names]
UpdateBoardInput == [name : Opt(Names)]
CreateColumnInput == [board_id : BoardIds, name : Names, order : Opt(Orders)]
UpdateColumnInput == [name : Opt(Names), order : Opt(Orders), archived : Opt(BOOLEAN)]
ReorderColumnInput == [id : ColumnIds, order : Orders]
CreateCardInput ==
    [column_id : ColumnIds, title : Names, description : Opt(Descriptions), order : Opt(Orders)]
UpdateCardInput ==
    [title : Opt(Names), description : Opt(Descriptions), order : Opt(Orders),
     archived : Opt(BOOLEAN)]
MoveCardInput == [column_id : ColumnIds, order : Orders]
BatchUpdateOrderInput == [id : CardIds, order : Orders]
\* Vec<T> of at most MaxBatch elements
Vec(T) == UNION {[1..n -> T] : n \in 0..MaxBatch}

NoPend == [op |-> "none"]
NoRet == [op |-> "none"]

\* The store file outlives the process: a launch finds the store an earlier session
\* left.  Workflow(k) is the store after the first k inserts of
\* integration_tests.rs::test_full_workflow (a board, its columns 1 and 2, the cards 1
\* and 2 of column 1), each the result of the create commands below at time 1.
RECURSIVE Workflow(_)
Workflow(k) ==
    IF k = 0 THEN EmptyDb
    ELSE LET d == Workflow(k - 1)
             col == [board_id |-> 1, name |-> "a", order |-> None]
             card == [column_id |-> 1, title |-> "a", description |-> None, order |-> None]
         IN  CASE k = 1 -> create_board_closure(d, 1, [name |-> "a"], 1).db
               [] k \in {2, 3} ->
                    create_column_closure(d, k - 1, col,
                                          create_column_order_closure(d, col), 1).db
               [] OTHER ->
                    create_card_closure(d, k - 3, card,
                                        create_card_order_closure(d, card), 1).db

\* a session that put column 2 on a second board instead
TwoBoards ==
    LET col == [board_id |-> 2, name |-> "a", order |-> None]
        card == [column_id |-> 1, title |-> "a", description |-> None, order |-> None]
        d2 == create_board_closure(Workflow(2), 2, [name |-> "a"], 1).db
        d3 == create_column_closure(d2, 2, col, create_column_order_closure(d2, col), 1).db
        d4 == create_card_closure(d3, 1, card, create_card_order_closure(d3, card), 1).db
    IN  create_card_closure(d4, 2, card, create_card_order_closure(d4, card), 1).db

Stores == {Workflow(k) : k \in 0..5} \cup {TwoBoards}

\* ---------------------------------------------------------- db/migrations.rs
\* MIGRATIONS: each script as the objects its CREATE ... IF NOT EXISTS statements
\* make, in the order of the script
MIGRATIONS ==
    <<[name |-> "001_initial_schema",
       sql |-> <<"boards", "columns", "cards",
                 "idx_columns_board", "idx_cards_column", "idx_boards_last_opened">>]>>

\* variant: the query never finds the name
already_applied_never(l, name) == FALSE
\* SELECT EXISTS(SELECT 1 FROM _migrations WHERE name = ?)
already_applied(l, name) == \E r \in DOMAIN l : l[r].name = name

\* every object of the schema: what a store holds once all migrations have run
FullSchema ==
    {"_migrations"} \cup
    UNION {{MIGRATIONS[i].sql[j] : j \in DOMAIN MIGRATIONS[i].sql} : i \in DOMAIN MIGRATIONS}
\* the ledger of a store whose migrations all ran at time 1
FullLedger == [i \in DOMAIN MIGRATIONS |-> [name |-> MIGRATIONS[i].name, applied_at |-> 1]]

MigIdle == [pc |-> "idle", i |-> 0, j |-> 0, res |-> "none", runs |-> 0]

\* the store as run() leaves it: migrated, no run_migrations in progress
MigratedInit ==
    /\ schema = FullSchema
    /\ ledger = FullLedger
    /\ mig = MigIdle

\* ------------------------------------------- commands/backup.rs and lib.rs
\* the times a file name can carry: of earlier sessions (<= 0) and of this one
Stamps == (1 - MaxPast)..MaxTime
\* format!("kanban_backup_{}.db", ts) and format!("kanban_startup_{}.db", ts), kept
\* as the two parts that differ from one name to the other
Filenames == [kind : {"backup", "startup"}, ts : Stamps]
backup_filename(ts) == [kind |-> "backup", ts |-> ts]
startup_filename(ts) == [kind |-> "startup", ts |-> ts]
\* the names share "kanban_"; the next character is 'b' (98) or 's' (115)
KindChar(kind) == IF kind = "backup" THEN 98 ELSE 115
\* String::cmp of two file names: byte by byte, so the kind decides before the
\* timestamp does; %Y%m%d_%H%M%S has a fixed width, so it compares as the time
FilenameLess(a, b) ==
    \/ KindChar(a.kind) < KindChar(b.kind)
    \/ KindChar(a.kind) = KindChar(b.kind) /\ a.ts < b.ts

\* backups.sort_by(|a, b| b.filename.cmp(&a.filename)) of the .db files of the
\* directory: the one sequence of its names in descending order
RECURSIVE SortDescending(_)
SortDescending(names) ==
    IF names = {} THEN <<>>
    ELSE LET first == CHOOSE n \in names : \A m \in names \ {n} : FilenameLess(m, n)
         IN  <<first>> \o SortDescending(names \ {first})

\* no backup command or launch happened in this step
NoBret == [op |-> "none"]

\* the directory with no file; db holds the .db files, wal and shm the names whose
\* -wal / -shm side file is there
EmptyDir == [db |-> <<>>, wal |-> {}, shm |-> {}]

\* fs::copy(&db_path, &backup_path): the file at `name` is now a copy of the store,
\* whatever was there before; `made` numbers the snapshots in the order written
copy_db(d, name, st, made) ==
    [d EXCEPT !.db = Insert(@, name, [size |-> st.size, made |-> made])]

\* create_backup, the files it leaves given the store st, the time ts and the
\* number of this snapshot
create_backup_files(d, st, ts, made) ==
    IF st.exists
    THEN LET d1 == copy_db(d, backup_filename(ts), st, made)
         IN  [d1 EXCEPT !.wal = IF st.wal THEN @ \cup {backup_filename(ts)} ELSE @,
                        !.shm = IF st.shm THEN @ \cup {backup_filename(ts)} ELSE @]
    ELSE d

\* list_backups: the BackupInfo of every .db file, by file name descending
list_backups_result(d) ==
    LET names == SortDescending(DOMAIN d.db)
    IN  [i \in DOMAIN names |-> [filename |-> names[i], size |-> d.db[names[i]].size]]

\* variant: the names before the last keep_count
Skip_keeps_last(list, keep_count) ==
    {list[i].filename : i \in {j \in DOMAIN list : j <= Len(list) - keep_count}}
\* backups.iter().skip(keep_count): the names past the first keep_count
Skip(list, keep_count) == {list[i].filename : i \in {j \in DOMAIN list : j > keep_count}}

\* variant: the loop ends at the first file fs::remove_file fails on
cleanup_old_backups_command_stops(d, keep_count, fails) ==
    LET backups == list_backups_result(d)
    IN  IF Len(backups) <= keep_count
        THEN [dir |-> d, deleted |-> 0]
        ELSE LET gone == {backups[i].filename : i \in
                            {j \in DOMAIN backups :
                                /\ j > keep_count
                                /\ \A k \in (keep_count + 1)..j :
                                       backups[k].filename \notin fails}}
             IN  [dir |-> [db |-> DeleteWhere(d.db, gone),
                           wal |-> d.wal \ gone,
                           shm |-> d.shm \ gone],
                  deleted |-> Cardinality(gone)]

\* the command cleanup_old_backups: [dir, deleted]; fs::remove_file fails on the
\* files of `fails` and succeeds on the others
cleanup_old_backups_command(d, keep_count, fails) ==
    LET backups == list_backups_result(d)
    IN  IF Len(backups) <= keep_count
        THEN [dir |-> d, deleted |-> 0]
        ELSE LET gone == Skip(backups, keep_count) \ fails
             IN  [dir |-> [db |-> DeleteWhere(d.db, gone),
                           wal |-> d.wal \ gone,
                           shm |-> d.shm \ gone],
                  deleted |-> Cardinality(gone)]

\* lib.rs cleanup_old_backups: removes the .db files past keep_count and no side file
cleanup_old_backups_startup(d, keep_count, fails) ==
    LET backups == list_backups_result(d)
    IN  [d EXCEPT !.db = DeleteWhere(@, Skip(backups, keep_count) \ fails)]

\* no setup closure is running
SetupIdle == [pc |-> "idle", had_store |-> FALSE, name |-> None, launches |-> 0]

\* the application is up on a store with no backups directory content
BackupIdle ==
    /\ setup = SetupIdle
    /\ bdir = EmptyDir
    /\ store = [exists |-> TRUE, size |-> 1, wal |-> TRUE, shm |-> TRUE]
    /\ app = "up"
    /\ bseq = 0
    /\ bret = NoBret

\* Database::new: the mutex is free, no caller is inside
GuardInit ==
    /\ mutex = 0
    /\ gpc = [t \in Threads |-> "idle"]
    /\ gfn = [t \in Threads |-> "none"]
    /\ gres = [t \in Threads |-> "none"]
    /\ gwait = [t \in Threads |-> 0]

Init ==
    /\ db \in Stores
    /\ clock = 1
    /\ uuid = [boards |-> Cardinality(DOMAIN db.boards),
               columns |-> Cardinality(DOMAIN db.columns),
               cards |-> Cardinality(DOMAIN db.cards)]
    /\ ops = 0
    /\ pend = [c \in Callers |-> NoPend]
    /\ ret = NoRet
    /\ GuardInit
    /\ MigratedInit
    /\ BackupIdle

\* time passes between two steps
Tick ==
    /\ clock < MaxTime
    /\ clock' = clock + 1
    /\ ret' = NoRet
    /\ UNCHANGED <<db, uuid, ops, pend, gvars, mvars, bvars>>

\* caller c, not inside a command, invokes one; the command takes the database
\* as State<Arc<Database>>, which is there once run() has registered it
Invoke(c) ==
    /\ app = "up"
    /\ pend[c] = NoPend
    /\ ops < MaxOps
    /\ ops' = ops + 1

\* with_connection returned r to command op(id, input): the command returns
Return(c, op, id, input, now, r) ==
    /\ db' = r.db
    /\ ret' = [op |-> op, id |-> id, input |-> input, now |-> now,
               ok |-> r.ok, pre |-> db]
    /\ UNCHANGED <<gvars, mvars, bvars>>

create_board(c) ==
    /\ Invoke(c)
    /\ uuid.boards < MaxBoards
    /\ uuid' = [uuid EXCEPT !.boards = @ + 1]
    /\ \E input \in CreateBoardInput :
           Return(c, "create_board", uuid'.boards, input, clock,
                  create_board_closure(db, uuid'.boards, input, clock))
    /\ UNCHANGED <<clock, pend>>

update_board(c) ==
    /\ Invoke(c)
    /\ \E id \in BoardIds, input \in UpdateBoardInput :
           Return(c, "update_board", id, input, clock,
                  update_board_closure(db, id, input, clock))
    /\ UNCHANGED <<clock, uuid, pend>>

delete_board(c) ==
    /\ Invoke(c)
    /\ \E id \in BoardIds :
           Return(c, "delete_board", id, None, clock, delete_board_closure(db, id))
    /\ UNCHANGED <<clock, uuid, pend>>

set_last_opened_board(c) ==
    /\ Invoke(c)
    /\ \E id \in BoardIds :
           Return(c, "set_last_opened_board", id, None, clock,
                  set_last_opened_board_closure(db, id, clock))
    /\ UNCHANGED <<clock, uuid, pend>>

\* create_column without an order, up to the end of its first with_connection
create_column_order(c) ==
    /\ Invoke(c)
    /\ uuid.columns < MaxColumns
    /\ uuid' = [uuid EXCEPT !.columns = @ + 1]
    /\ \E input \in CreateColumnInput :
           /\ input.order = None
           /\ pend' = [pend EXCEPT ![c] =
                  [op |-> "create_column", id |-> uuid'.columns, input |-> input,
                   order |-> create_column_order_closure(db, input), now |-> clock]]
    /\ ret' = NoRet
    /\ UNCHANGED <<db, clock, gvars, mvars, bvars>>

\* create_column with an order: its only with_connection is the INSERT
create_column(c) ==
    /\ Invoke(c)
    /\ uuid.columns < MaxColumns
    /\ uuid' = [uuid EXCEPT !.columns = @ + 1]
    /\ \E input \in CreateColumnInput :
           /\ input.order # None
           /\ Return(c, "create_column", uuid'.columns, input, clock,
                     create_column_closure(db, uuid'.columns, input, input.order[1], clock))
    /\ UNCHANGED <<clock, pend>>

\* create_column without an order: its second with_connection, the INSERT
create_column_insert(c) ==
    /\ pend[c].op = "create_column"
    /\ Return(c, "create_column", pend[c].id, pend[c].input, pend[c].now,
              create_column_closure(db, pend[c].id, pend[c].input, pend[c].order,
                                    pend[c].now))
    /\ pend' = [pend EXCEPT ![c] = NoPend]
    /\ UNCHANGED <<clock, uuid, ops>>

update_column(c) ==
    /\ Invoke(c)
    /\ \E id \in ColumnIds, input \in UpdateColumnInput :
           Return(c, "update_column", id, input, clock,
                  update_column_closure(db, id, input, clock))
    /\ UNCHANGED <<clock, uuid, pend>>

delete_column(c) ==
    /\ Invoke(c)
    /\ \E id \in ColumnIds :
           Return(c, "delete_column", id, None, clock, delete_column_closure(db, id))
    /\ UNCHANGED <<clock, uuid, pend>>

reorder_columns(c) ==
    /\ Invoke(c)
    /\ \E updates \in Vec(ReorderColumnInput) :
           Return(c, "reorder_columns", 0, updates, clock,
                  reorder_columns_closure(db, updates, clock))
    /\ UNCHANGED <<clock, uuid, pend>>

create_card_order(c) ==
    /\ Invoke(c)
    /\ uuid.cards < MaxCards
    /\ uuid' = [uuid EXCEPT !.cards = @ + 1]
    /\ \E input \in CreateCardInput :
           /\ input.order = None
           /\ pend' = [pend EXCEPT ![c] =
                  [op |-> "create_card", id |-> uuid'.cards, input |-> input,
                   order |-> create_card_order_closure(db, input), now |-> clock]]
    /\ ret' = NoRet
    /\ UNCHANGED <<db, clock, gvars, mvars, bvars>>

create_card(c) ==
    /\ Invoke(c)
    /\ uuid.cards < MaxCards
    /\ uuid' = [uuid EXCEPT !.cards = @ + 1]
    /\ \E input \in CreateCardInput :
           /\ input.order # None
           /\ Return(c, "create_card", uuid'.cards, input, clock,
                     create_card_closure(db, uuid'.cards, input, input.order[1], clock))
    /\ UNCHANGED <<clock, pend>>

create_card_insert(c) ==
    /\ pend[c].op = "create_card"
    /\ Return(c, "create_card", pend[c].id, pend[c].input, pend[c].now,
              create_card_closure(db, pend[c].id, pend[c].input, pend[c].order,
                                  pend[c].now))
    /\ pend' = [pend EXCEPT ![c] = NoPend]
    /\ UNCHANGED <<clock, uuid, ops>>

update_card(c) ==
    /\ Invoke(c)
    /\ \E id \in CardIds, input \in UpdateCardInput :
           Return(c, "update_card", id, input, clock,
                  update_card_closure(db, id, input, clock))
    /\ UNCHANGED <<clock, uuid, pend>>

delete_card(c) ==
    /\ Invoke(c)
    /\ \E id \in CardIds :
           Return(c, "delete_card", id, None, clock, delete_card_closure(db, id))
    /\ UNCHANGED <<clock, uuid, pend>>

move_card(c) ==
    /\ Invoke(c)
    /\ \E id \in CardIds, input \in MoveCardInput :
           Return(c, "move_card", id, input, clock,
                  move_card_closure(db, id, input, clock))
    /\ UNCHANGED <<clock, uuid, pend>>

batch_update_card_orders(c) ==
    /\ Invoke(c)
    /\ \E updates \in Vec(BatchUpdateOrderInput) :
           Return(c, "batch_update_card_orders", 0, updates, clock,
                  batch_update_card_orders_closure(db, updates, clock))
    /\ UNCHANGED <<clock, uuid, pend>>

Command(c) ==
    \/ create_board(c) \/ update_board(c) \/ delete_board(c) \/ set_last_opened_board(c)
    \/ create_column_order(c) \/ create_column(c) \/ create_column_insert(c)
    \/ update_column(c)
    \/ delete_column(c) \/ reorder_columns(c)
    \/ create_card_order(c) \/ create_card(c) \/ create_card_insert(c)
    \/ update_card(c) \/ delete_card(c)
    \/ move_card(c) \/ batch_update_card_orders(c)

Next == Tick \/ \E c \in Callers : Command(c)

Spec == Init /\ [][Next]_vars

\* ---------------------------------------------------- one caller at a time
\* createColumn calls without an order, one after the other, on boards that start
\* without columns
InitSeq ==
    /\ Init
    /\ db \in {Workflow(0), Workflow(1)}

NextSeq ==
    \/ Tick
    \/ create_board(1)
    \/ create_column_order(1)
    \/ create_column_insert(1)

SpecSeq == InitSeq /\ [][NextSeq]_vars

\* ------------------------------------------------------------- db/mod.rs
\* self.conn.lock(): waits until the mutex is free, then holds it
MutexLock(t) ==
    /\ mutex = 0
    /\ mutex' = t

\* variant: the guard released on the Ok path only
MutexGuardDrop_on_ok(t, result) == mutex' = IF result = "ok" THEN 0 ELSE mutex

\* the MutexGuard `conn` leaves scope as the function returns, with Ok or with Err
MutexGuardDrop(t, result) == mutex' = 0

\* a thread calls Database::with_connection or Database::run_migrations
guard_call(t) ==
    /\ gpc[t] = "idle"
    /\ \E fn \in {"with_connection", "run_migrations"} : gfn' = [gfn EXCEPT ![t] = fn]
    /\ gpc' = [gpc EXCEPT ![t] = "lock"]
    /\ gres' = [gres EXCEPT ![t] = "none"]
    /\ gwait' = [gwait EXCEPT ![t] = 0]
    /\ UNCHANGED <<mutex, dbvars, mvars, bvars>>

\* let conn = self.conn.lock();
guard_lock(t) ==
    /\ gpc[t] = "lock"
    /\ MutexLock(t)
    /\ gpc' = [gpc EXCEPT ![t] = "closure"]
    /\ gwait' = [gwait EXCEPT ![t] = 0]
    /\ UNCHANGED <<gfn, gres, dbvars, mvars, bvars>>

\* time passes for a thread inside lock() while another thread holds the mutex:
\* parking_lot's lock() takes no timeout, so the only way out of it is guard_lock
\* (the wait is counted up to the first value past BusyTimeout)
guard_wait(t) ==
    /\ gpc[t] = "lock"
    /\ mutex # 0
    /\ gwait[t] <= BusyTimeout
    /\ gwait' = [gwait EXCEPT ![t] = @ + BusyTimeout \div WaitSteps]
    /\ UNCHANGED <<mutex, gpc, gfn, gres, dbvars, mvars, bvars>>

\* f(&conn) / migrations::run_migrations(&conn) runs and returns Ok or Err
guard_closure(t) ==
    /\ gpc[t] = "closure"
    /\ \E result \in {"ok", "err"} : gres' = [gres EXCEPT ![t] = result]
    /\ gpc' = [gpc EXCEPT ![t] = "return"]
    /\ UNCHANGED <<mutex, gfn, gwait, dbvars, mvars, bvars>>

\* the function returns the result (map_err / ?), dropping the guard
guard_return(t) ==
    /\ gpc[t] = "return"
    /\ MutexGuardDrop(t, gres[t])
    /\ gpc' = [gpc EXCEPT ![t] = "idle"]
    /\ UNCHANGED <<gfn, gres, gwait, dbvars, mvars, bvars>>

InitGuard ==
    /\ Init
    /\ db = EmptyDb

NextGuard ==
    \E t \in Threads :
        guard_call(t) \/ guard_lock(t) \/ guard_wait(t) \/ guard_closure(t) \/ guard_return(t)

SpecGuard == InitGuard /\ [][NextGuard]_vars

\* ---------------------------------------------- migrations::run_migrations
\* every statement goes to SQLite on its own (autocommit): run_migrations opens no
\* transaction, and any statement may fail (I/O error, disk full), which `?` returns

\* the function returns Err at the statement it is at
MigFail == mig' = [mig EXCEPT !.pc = "idle", !.res = "err"]

\* the entry of run_migrations
run_migrations_entry ==
    /\ mig.pc = "idle"
    /\ mig.runs < MaxRuns
    /\ mig' = [pc |-> "ledger", i |-> 1, j |-> 1, res |-> "none", runs |-> mig.runs + 1]

\* run() calls database.run_migrations(), once per start of the application
run_migrations_call ==
    /\ run_migrations_entry
    /\ UNCHANGED <<schema, ledger, dbvars, gvars, bvars>>

\* CREATE TABLE IF NOT EXISTS _migrations
create_migrations_table ==
    /\ mig.pc = "ledger"
    /\ \/ /\ schema' = schema \cup {"_migrations"}
          /\ mig' = [mig EXCEPT !.pc = "check"]
       \/ /\ MigFail
          /\ UNCHANGED schema
    /\ UNCHANGED <<ledger, dbvars, gvars, bvars>>

\* for (name, sql) in MIGRATIONS: the already_applied query and the branch on it;
\* after the last migration the function returns Ok(())
already_applied_query ==
    /\ mig.pc = "check"
    /\ IF mig.i > Len(MIGRATIONS)
       THEN mig' = [mig EXCEPT !.pc = "idle", !.res = "ok"]
       ELSE \/ mig' = IF already_applied(ledger, MIGRATIONS[mig.i].name)
                      THEN [mig EXCEPT !.i = @ + 1]
                      ELSE [mig EXCEPT !.pc = "batch", !.j = 1]
            \/ MigFail
    /\ UNCHANGED <<schema, ledger, dbvars, gvars, bvars>>

\* conn.execute_batch(sql): the next statement of the script
execute_batch_statement ==
    /\ mig.pc = "batch"
    /\ \/ /\ schema' = schema \cup {MIGRATIONS[mig.i].sql[mig.j]}
          /\ mig' = IF mig.j = Len(MIGRATIONS[mig.i].sql)
                    THEN [mig EXCEPT !.pc = "record"]
                    ELSE [mig EXCEPT !.j = @ + 1]
       \/ /\ MigFail
          /\ UNCHANGED schema
    /\ UNCHANGED <<ledger, dbvars, gvars, bvars>>

\* INSERT INTO _migrations (name, applied_at) VALUES (?, datetime('now')); name is
\* the PRIMARY KEY
insert_migration_record ==
    /\ mig.pc = "record"
    /\ \/ /\ ~already_applied(ledger, MIGRATIONS[mig.i].name)
          /\ ledger' = Append(ledger, [name |-> MIGRATIONS[mig.i].name, applied_at |-> clock])
          /\ mig' = [mig EXCEPT !.pc = "check", !.i = @ + 1]
       \/ /\ MigFail
          /\ UNCHANGED ledger
    /\ UNCHANGED <<schema, dbvars, gvars, bvars>>

\* the database file run() finds: one an earlier start migrated, or a new one
InitMig ==
    /\ db \in Stores
    /\ clock = 1
    /\ uuid = [boards |-> Cardinality(DOMAIN db.boards),
               columns |-> Cardinality(DOMAIN db.columns),
               cards |-> Cardinality(DOMAIN db.cards)]
    /\ ops = 0
    /\ pend = [c \in Callers |-> NoPend]
    /\ ret = NoRet
    /\ GuardInit
    /\ BackupIdle
    /\ mig = MigIdle
    /\ \/ schema = FullSchema /\ ledger = FullLedger
       \/ schema = {} /\ ledger = <<>> /\ db = EmptyDb

NextMig ==
    \/ Tick
    \/ run_migrations_call
    \/ create_migrations_table
    \/ already_applied_query
    \/ execute_batch_statement
    \/ insert_migration_record

SpecMig == InitMig /\ [][NextMig]_vars

\* ------------------------------------------------- backups: the commands
\* a launch, exit or backup command is taken while the fuel lasts
BackupStep ==
    /\ ops < MaxBackupOps
    /\ ops' = ops + 1
    /\ ret' = NoRet
    /\ UNCHANGED <<db, clock, uuid, pend, gvars, mvars, setup>>

\* run(), the setup closure: the startup snapshot and the retention when kanban.db
\* exists (every error of the two ignored), then Database::new, which opens or
\* creates kanban.db in WAL mode, then the registration of the database
launch ==
    /\ app = "down"
    /\ BackupStep
    /\ LET name == startup_filename(clock)
           d1 == IF store.exists
                 THEN cleanup_old_backups_startup(
                          copy_db(bdir, name, store, bseq + 1), KeepStartup, {})
                 ELSE bdir
       IN  /\ bdir' = d1
           /\ bseq' = IF store.exists THEN bseq + 1 ELSE bseq
           /\ bret' = [op |-> "launch", pre |-> bdir, had_store |-> store.exists,
                       name |-> name]
    /\ store' = [exists |-> TRUE, size |-> IF store.exists THEN store.size ELSE 1,
                 wal |-> TRUE, shm |-> TRUE]
    /\ app' = "up"

\* the application ends: closing the connection removes the -wal and -shm files,
\* a killed process leaves them
exit ==
    /\ app = "up"
    /\ BackupStep
    /\ app' = "down"
    /\ \E clean \in BOOLEAN :
           store' = IF clean THEN [store EXCEPT !.wal = FALSE, !.shm = FALSE] ELSE store
    /\ bret' = NoBret
    /\ UNCHANGED <<bdir, bseq>>

create_backup ==
    /\ app = "up"
    /\ BackupStep
    /\ bdir' = create_backup_files(bdir, store, clock, bseq + 1)
    /\ bseq' = IF store.exists THEN bseq + 1 ELSE bseq
    /\ bret' = [op |-> "create_backup", pre |-> bdir, name |-> backup_filename(clock),
                made |-> bseq + 1]
    /\ UNCHANGED <<store, app>>

list_backups ==
    /\ app = "up"
    /\ BackupStep
    /\ bret' = [op |-> "list_backups", pre |-> bdir, list |-> list_backups_result(bdir)]
    /\ UNCHANGED <<bdir, store, app, bseq>>

\* the command, on a directory whose files fs::remove_file can remove
cleanup_old_backups ==
    /\ app = "up"
    /\ BackupStep
    /\ \E keep_count \in 0..MaxKeep :
           LET r == cleanup_old_backups_command(bdir, keep_count, {})
           IN  /\ bdir' = r.dir
               /\ bret' = [op |-> "cleanup_old_backups", pre |-> bdir,
                           keep_count |-> keep_count, deleted |-> r.deleted]
    /\ UNCHANGED <<store, app, bseq>>

\* the backups directory earlier sessions left: a startup snapshot for each launch
\* time of `launched`, an on-demand snapshot (with its side files) for each time of
\* `called`; the n-th second before this session wrote its files before the next
PastStamps == (1 - MaxPast)..0
SeedDir(launched, called) ==
    LET names == {startup_filename(t) : t \in launched} \cup {backup_filename(t) : t \in called}
    IN  [db |-> [n \in names |->
                    [size |-> 1, made |-> IF n.kind = "startup" THEN 2 * n.ts - 1 ELSE 2 * n.ts]],
         wal |-> {backup_filename(t) : t \in called},
         shm |-> {backup_filename(t) : t \in called}]

InitBackup ==
    /\ db = EmptyDb
    /\ clock = 1
    /\ uuid = [boards |-> 0, columns |-> 0, cards |-> 0]
    /\ ops = 0
    /\ pend = [c \in Callers |-> NoPend]
    /\ ret = NoRet
    /\ GuardInit
    /\ MigratedInit
    /\ \E launched \in SUBSET PastStamps, called \in SUBSET PastStamps :
           bdir = SeedDir(launched, called)
    /\ bseq = 0
    /\ bret = NoBret
    /\ setup = SetupIdle
    /\ \/ /\ app = "up"
          /\ store = [exists |-> TRUE, size |-> 1, wal |-> TRUE, shm |-> TRUE]
       \/ /\ app = "down"
          /\ \E there, side \in BOOLEAN :
                 store = [exists |-> there, size |-> IF there THEN 1 ELSE 0,
                          wal |-> there /\ side, shm |-> there /\ side]

NextBackup ==
    \/ Tick
    \/ launch
    \/ exit
    \/ create_backup
    \/ list_backups
    \/ cleanup_old_backups

SpecBackup == InitBackup /\ [][NextBackup]_vars

\* --------------------------------- backups: a file system whose calls can fail
\* kanban.db and its side files are removed from the application's data directory
\* by someone else; create_backup asks db_path.exists() for this reason
store_removed ==
    /\ store.exists
    /\ BackupStep
    /\ store' = [exists |-> FALSE, size |-> 0, wal |-> FALSE, shm |-> FALSE]
    /\ bret' = NoBret
    /\ UNCHANGED <<bdir, app, bseq>>

\* the sets of at most MaxFails files of directory d
FailSets(d) == {F \in SUBSET DOMAIN d.db : Cardinality(F) <= MaxFails}

\* the command on a directory where fs::remove_file fails on the files of `fails`
cleanup_old_backups_io ==
    /\ app = "up"
    /\ BackupStep
    /\ \E keep_count \in 0..MaxKeep, fails \in FailSets(bdir) :
           LET r == cleanup_old_backups_command(bdir, keep_count, fails)
           IN  /\ bdir' = r.dir
               /\ bret' = [op |-> "cleanup_old_backups", pre |-> bdir,
                           keep_count |-> keep_count, fails |-> fails,
                           deleted |-> r.deleted]
    /\ UNCHANGED <<store, app, bseq>>

NextBackupIo ==
    \/ Tick
    \/ launch
    \/ exit
    \/ store_removed
    \/ create_backup
    \/ list_backups
    \/ cleanup_old_backups_io

SpecBackupIo == InitBackup /\ [][NextBackupIo]_vars

\* ------------------------------------------ lib.rs: run(), statement by statement
\* a statement of the setup closure is taken; no command returns in the step
SetupStep ==
    /\ ret' = NoRet
    /\ UNCHANGED <<db, clock, uuid, ops, pend, gvars>>

\* the process ends with setup's error: nothing was registered
SetupAbort == setup' = [setup EXCEPT !.pc = "idle"]

\* variant: the setup closure goes to Database::new first, whether or not
\* kanban.db exists
setup_begin_open_first ==
    /\ app = "down" /\ setup.pc = "idle"
    /\ setup.launches < MaxLaunches
    /\ setup' = [pc |-> "open", had_store |-> store.exists,
                 name |-> None, launches |-> setup.launches + 1]
    /\ SetupStep
    /\ UNCHANGED <<mvars, bdir, store, app, bseq, bret>>

\* the application is started: app_data_dir, create_dir_all, db_path.exists()
setup_begin ==
    /\ app = "down" /\ setup.pc = "idle"
    /\ setup.launches < MaxLaunches
    /\ setup' = [pc |-> IF store.exists THEN "snapshot" ELSE "open",
                 had_store |-> store.exists,
                 name |-> None, launches |-> setup.launches + 1]
    /\ SetupStep
    /\ UNCHANGED <<mvars, bdir, store, app, bseq, bret>>

\* fs::copy(&db_path, backups_dir.join("kanban_startup_<now>.db"))
startup_snapshot ==
    /\ setup.pc = "snapshot"
    /\ bdir' = copy_db(bdir, startup_filename(clock), store, bseq + 1)
    /\ bseq' = bseq + 1
    /\ setup' = [setup EXCEPT !.pc = "retention", !.name = Some(startup_filename(clock))]
    /\ SetupStep
    /\ UNCHANGED <<mvars, store, app, bret>>

\* cleanup_old_backups(&backups_dir, 7)
startup_retention ==
    /\ setup.pc = "retention"
    /\ bdir' = cleanup_old_backups_startup(bdir, KeepStartup, {})
    /\ setup' = [setup EXCEPT !.pc = "open"]
    /\ SetupStep
    /\ UNCHANGED <<mvars, store, app, bseq, bret>>

\* Database::new(&db_path)?: Connection::open creates kanban.db when it is not
\* there, the PRAGMAs put it in WAL mode; either may fail, and a failed call may
\* have created the file already
database_new ==
    /\ setup.pc = "open"
    /\ \/ /\ store' = [exists |-> TRUE, size |-> IF store.exists THEN store.size ELSE 1,
                       wal |-> TRUE, shm |-> TRUE]
          /\ setup' = [setup EXCEPT !.pc = "migrate"]
       \/ /\ \E created \in BOOLEAN :
                 store' = IF created /\ ~store.exists
                          THEN [exists |-> TRUE, size |-> 1, wal |-> FALSE, shm |-> FALSE]
                          ELSE store
          /\ SetupAbort
    /\ SetupStep
    /\ UNCHANGED <<mvars, bdir, app, bseq, bret>>

\* database.run_migrations() is called
setup_run_migrations ==
    /\ setup.pc = "migrate"
    /\ run_migrations_entry
    /\ setup' = [setup EXCEPT !.pc = "migrating"]
    /\ SetupStep
    /\ UNCHANGED <<schema, ledger, bdir, store, app, bseq, bret>>

\* variant: the result of run_migrations is dropped
setup_migrations_returned_ignored ==
    /\ setup.pc = "migrating" /\ mig.pc = "idle"
    /\ setup' = [setup EXCEPT !.pc = "integrity"]
    /\ SetupStep
    /\ UNCHANGED <<mvars, bdir, store, app, bseq, bret>>

\* database.run_migrations()?: the `?` on what it returned
setup_migrations_returned ==
    /\ setup.pc = "migrating" /\ mig.pc = "idle"
    /\ IF mig.res = "ok" THEN setup' = [setup EXCEPT !.pc = "integrity"] ELSE SetupAbort
    /\ SetupStep
    /\ UNCHANGED <<mvars, bdir, store, app, bseq, bret>>

\* PRAGMA integrity_check: the result is printed, the error dropped by .ok()
integrity_check ==
    /\ setup.pc = "integrity"
    /\ setup' = [setup EXCEPT !.pc = "manage"]
    /\ SetupStep
    /\ UNCHANGED <<mvars, bdir, store, app, bseq, bret>>

\* app.manage(Arc::new(database)); Ok(()): the commands can now get the database
app_manage ==
    /\ setup.pc = "manage"
    /\ app' = "up"
    /\ setup' = [setup EXCEPT !.pc = "idle"]
    /\ SetupStep
    /\ UNCHANGED <<mvars, bdir, store, bseq, bret>>

\* what a start finds: no kanban.db, or the kanban.db an earlier session migrated,
\* and the backups directory earlier sessions left
InitStartup ==
    /\ db = EmptyDb
    /\ clock = 1
    /\ uuid = [boards |-> 0, columns |-> 0, cards |-> 0]
    /\ ops = 0
    /\ pend = [c \in Callers |-> NoPend]
    /\ ret = NoRet
    /\ GuardInit
    /\ mig = MigIdle
    /\ app = "down"
    /\ setup = SetupIdle
    /\ bseq = 0
    /\ bret = NoBret
    /\ \E launched \in SUBSET PastStamps, called \in {{}, PastStamps} :
           bdir = SeedDir(launched, called)
    /\ \/ /\ store = [exists |-> FALSE, size |-> 0, wal |-> FALSE, shm |-> FALSE]
          /\ schema = {} /\ ledger = <<>>
       \/ /\ \E side \in BOOLEAN : store = [exists |-> TRUE, size |-> 1, wal |-> side, shm |-> side]
          /\ schema = FullSchema /\ ledger = FullLedger

NextStartup ==
    \/ Tick
    \/ setup_begin
    \/ startup_snapshot
    \/ startup_retention
    \/ database_new
    \/ setup_run_migrations
    \/ create_migrations_table
    \/ already_applied_query
    \/ execute_batch_statement
    \/ insert_migration_record
    \/ setup_migrations_returned
    \/ integrity_check
    \/ app_manage
    \/ \E c \in Callers : create_board(c) \/ update_board(c) \/ delete_board(c)

SpecStartup == InitStartup /\ [][NextStartup]_vars

\* ================================================================= claims
Range(s) == {s[i] : i \in DOMAIN s}
ColumnsOf(d, b) == {k \in DOMAIN d.columns : d.columns[k].board_id = b}
CardsOf(d, col) == {k \in DOMAIN d.cards : d.cards[k].column_id = col}
ActiveColumnsOf(d, b) == {k \in ColumnsOf(d, b) : ~d.columns[k].archived}
ActiveCardsOf(d, col) == {k \in CardsOf(d, col) : ~d.cards[k].archived}
\* o is one more than the largest of `orders`, and 1 when there is none
IsMaxPlusOne(o, orders) ==
    IF orders = {} THEN o = 1
    ELSE (o - 1) \in orders /\ \A x \in orders : x <= o - 1

\* C1: after delete_board(b) returns Ok, no column with board_id = b remains and no
\* card whose column_id was one of b's columns remains, archived or not.
C1_DeleteBoardCascades ==
    (ret.op = "delete_board" /\ ret.ok) =>
        /\ \A k \in DOMAIN db.columns : db.columns[k].board_id # ret.id
        /\ \A k \in DOMAIN db.cards : db.cards[k].column_id \notin ColumnsOf(ret.pre, ret.id)

\* a board was deleted that had an archived column holding a card
C1_Witness ==
    /\ ret.op = "delete_board" /\ ret.ok
    /\ \E col \in ColumnsOf(ret.pre, ret.id) :
           ret.pre.columns[col].archived /\ CardsOf(ret.pre, col) # {}

\* C2: in every reachable state every column's board_id is the id of an existing
\* board and every card's column_id is the id of an existing column.
C2_ReferencesExist ==
    /\ \A k \in DOMAIN db.columns : db.columns[k].board_id \in DOMAIN db.boards
    /\ \A k \in DOMAIN db.cards : db.cards[k].column_id \in DOMAIN db.columns

\* move_card of an existing card to a column that does not exist was refused
C2_Witness ==
    /\ ret.op = "move_card" /\ ~ret.ok
    /\ ret.id \in DOMAIN db.cards
    /\ ret.input.column_id \notin DOMAIN db.columns

\* C3: create_column / create_card called without an order stores the largest order
\* of the rows its scope (the board, the column) holds when the command reads it,
\* archived rows included, plus 1; and 1 when the scope holds no row.
C3_AutoOrderIsMaxPlusOne ==
    [][\A c \in Callers :
         /\ (pend[c] = NoPend /\ pend'[c] # NoPend) =>
                IsMaxPlusOne(pend'[c].order,
                    IF pend'[c].op = "create_column"
                    THEN {db.columns[k].order : k \in ColumnsOf(db, pend'[c].input.board_id)}
                    ELSE {db.cards[k].order : k \in CardsOf(db, pend'[c].input.column_id)})
         /\ (pend[c] # NoPend /\ pend'[c] = NoPend /\ ret'.ok) =>
                IF pend[c].op = "create_column"
                THEN db'.columns[ret'.id].order = pend[c].order
                ELSE db'.cards[ret'.id].order = pend[c].order]_vars

\* a column was created without an order on a board whose largest order belonged
\* to an archived column
C3_Witness ==
    /\ ret.op = "create_column" /\ ret.ok /\ ret.input.order = None
    /\ \E k \in ColumnsOf(ret.pre, ret.input.board_id) :
           /\ ret.pre.columns[k].archived
           /\ db.columns[ret.id].order = ret.pre.columns[k].order + 1
           /\ \A j \in ActiveColumnsOf(ret.pre, ret.input.board_id) :
                  ret.pre.columns[j].order < ret.pre.columns[k].order

\* C4: the columns one caller creates on a board, call after call and none with an
\* order, get the orders 1, 2, 3, ...: the k-th created gets k.
C4_SequentialOrdersCountUp ==
    \A b \in DOMAIN db.boards : \A k \in ColumnsOf(db, b) :
        db.columns[k].order = 1 + Cardinality({j \in ColumnsOf(db, b) : j < k})

\* the second column of a board was created and got order 2
C4_Witness ==
    /\ ret.op = "create_column" /\ ret.ok /\ ret.input.order = None
    /\ Cardinality(ColumnsOf(db, ret.input.board_id)) = 2
    /\ db.columns[ret.id].order = 2

\* C5: create_column / create_card without an order holds the guard from the
\* max-order read through the insert, so two callers in the same scope are never
\* both past the read with the same maximum (and so the same order to insert).
C5_NoSharedMaximum ==
    \A c1, c2 \in Callers :
        (/\ c1 # c2
         /\ pend[c1] # NoPend /\ pend[c2] # NoPend
         /\ pend[c1].op = pend[c2].op
         /\ IF pend[c1].op = "create_column"
            THEN /\ pend[c1].input.board_id = pend[c2].input.board_id
                 /\ pend[c1].input.board_id \in DOMAIN db.boards
            ELSE /\ pend[c1].input.column_id = pend[c2].input.column_id
                 /\ pend[c1].input.column_id \in DOMAIN db.columns)
        => pend[c1].order # pend[c2].order

\* C6: at most one closure runs against the connection at a time (only the holder of
\* the mutex is inside), and a thread that is not inside with_connection or
\* run_migrations does not hold the mutex, whether its closure returned Ok or Err.
C6_OneClosureAndGuardReleased ==
    /\ \A t \in Threads : gpc[t] \in {"closure", "return"} => mutex = t
    /\ \A t \in Threads : gpc[t] \in {"idle", "lock"} => mutex # t

\* a closure returned Err, its thread is out, and another thread's closure runs
C6_Witness ==
    \E t1, t2 \in Threads :
        /\ gpc[t1] = "idle" /\ gres[t1] = "err"
        /\ gpc[t2] = "closure"

\* C7 as stated: after move_card(id, {column_id: X, order: O}) returns Ok the card's
\* column_id is X and its order O, it is not in its previous column's active list
\* and it is in X's active list.
C7_MoveCardAsStated ==
    (ret.op = "move_card" /\ ret.ok) =>
        /\ db.cards[ret.id].column_id = ret.input.column_id
        /\ db.cards[ret.id].order = ret.input.order
        /\ \A s \in get_cards_for_column(db, ret.pre.cards[ret.id].column_id) :
               ret.id \notin Range(s)
        /\ \A s \in get_cards_for_column(db, ret.input.column_id) : ret.id \in Range(s)

\* C7 amended: the card's column_id is X and its order O; when X is another column
\* than before, the card is not in the previous column's active list; the card is
\* in X's active list exactly when it is not archived, and move_card leaves the
\* archived flag as it was.
C7_MoveCard ==
    (ret.op = "move_card" /\ ret.ok) =>
        LET prev == ret.pre.cards[ret.id].column_id
            X == ret.input.column_id
        IN  /\ db.cards[ret.id].column_id = X
            /\ db.cards[ret.id].order = ret.input.order
            /\ db.cards[ret.id].archived = ret.pre.cards[ret.id].archived
            /\ prev # X => \A s \in get_cards_for_column(db, prev) : ret.id \notin Range(s)
            /\ \A s \in get_cards_for_column(db, X) :
                   ret.id \in Range(s) <=> ~db.cards[ret.id].archived

\* an active card was moved to another column and is listed there
C7_Witness ==
    /\ ret.op = "move_card" /\ ret.ok
    /\ ret.pre.cards[ret.id].column_id # ret.input.column_id
    /\ ~ret.pre.cards[ret.id].archived
    /\ \E s \in get_cards_for_column(ret.pre, ret.pre.cards[ret.id].column_id) :
           ret.id \in Range(s)
    /\ \E s \in get_cards_for_column(db, ret.input.column_id) : ret.id \in Range(s)

\* the updates name each row of DOMAIN old once and give them a permutation of the
\* orders `old` the rows had
IsReorderOf(updates, old) ==
    /\ DOMAIN old # {}
    /\ {updates[i].id : i \in DOMAIN updates} = DOMAIN old
    /\ Len(updates) = Cardinality(DOMAIN old)
    /\ \E p \in [DOMAIN updates -> DOMAIN updates] :
           /\ \A i, j \in DOMAIN updates : i # j => p[i] # p[j]
           /\ \A i \in DOMAIN updates : updates[i].order = old[updates[p[i]].id]
\* the order `updates` gives row k
NewOrder(updates, k) == (CHOOSE u \in Range(updates) : u.id = k).order

\* C8: when reorder_columns / batch_update_card_orders is given every active row of
\* one scope with a permutation of their orders, the listing of that scope that
\* follows returns exactly those rows, ascending by the orders given.
C8_ReorderThenListSorted ==
    /\ ret.op = "reorder_columns" =>
           \A b \in BoardIds :
               IsReorderOf(ret.input, [k \in ActiveColumnsOf(ret.pre, b) |-> ret.pre.columns[k].order])
               => \A s \in get_columns_for_board(db, b) :
                      /\ Range(s) = ActiveColumnsOf(ret.pre, b)
                      /\ \A i, j \in DOMAIN s :
                             i < j => NewOrder(ret.input, s[i]) <= NewOrder(ret.input, s[j])
    /\ ret.op = "batch_update_card_orders" =>
           \A col \in ColumnIds :
               IsReorderOf(ret.input, [k \in ActiveCardsOf(ret.pre, col) |-> ret.pre.cards[k].order])
               => \A s \in get_cards_for_column(db, col) :
                      /\ Range(s) = ActiveCardsOf(ret.pre, col)
                      /\ \A i, j \in DOMAIN s :
                             i < j => NewOrder(ret.input, s[i]) <= NewOrder(ret.input, s[j])

\* the two active columns of a board were given each other's order, and the
\* listing now starts with the one that was last
C8_Witness ==
    /\ ret.op = "reorder_columns"
    /\ \E b \in BoardIds :
           /\ Cardinality(ActiveColumnsOf(ret.pre, b)) = 2
           /\ IsReorderOf(ret.input, [k \in ActiveColumnsOf(ret.pre, b) |-> ret.pre.columns[k].order])
           /\ \E s \in get_columns_for_board(db, b) :
                  ret.pre.columns[s[1]].order > ret.pre.columns[s[2]].order

\* C9: get_columns_for_board(b) returns only columns of b that are not archived,
\* get_cards_for_column(col) only cards of col that are not archived, and a row
\* archived by update_column / update_card is in no listing that follows.
C9_ListingsSkipArchived ==
    /\ \A b \in BoardIds : \A s \in get_columns_for_board(db, b) : \A i \in DOMAIN s :
           db.columns[s[i]].board_id = b /\ ~db.columns[s[i]].archived
    /\ \A col \in ColumnIds : \A s \in get_cards_for_column(db, col) : \A i \in DOMAIN s :
           db.cards[s[i]].column_id = col /\ ~db.cards[s[i]].archived
    /\ (ret.op = "update_column" /\ ret.ok /\ ret.input.archived = Some(TRUE)) =>
           \A b \in BoardIds : \A s \in get_columns_for_board(db, b) : ret.id \notin Range(s)
    /\ (ret.op = "update_card" /\ ret.ok /\ ret.input.archived = Some(TRUE)) =>
           \A col \in ColumnIds : \A s \in get_cards_for_column(db, col) : ret.id \notin Range(s)

\* update_card archived a card that its column's listing held
C9_Witness ==
    /\ ret.op = "update_card" /\ ret.ok /\ ret.input.archived = Some(TRUE)
    /\ \E s \in get_cards_for_column(ret.pre, ret.pre.cards[ret.id].column_id) :
           ret.id \in Range(s)
    /\ \A s \in get_cards_for_column(db, db.cards[ret.id].column_id) : ret.id \notin Range(s)

\* C10: update_board on an existing board changes only the fields the input gives
\* and sets updated_at to the time of the call, also when the input gives no name;
\* created_at and last_opened_at stay.
C10_UpdateBoardRefreshes ==
    (ret.op = "update_board" /\ ret.ok) =>
        /\ db.boards[ret.id].updated_at = ret.now
        /\ db.boards[ret.id].name = unwrap_or(ret.input.name, ret.pre.boards[ret.id].name)
        /\ db.boards[ret.id].created_at = ret.pre.boards[ret.id].created_at
        /\ db.boards[ret.id].last_opened_at = ret.pre.boards[ret.id].last_opened_at

\* every row of tbl but row `id` is as it was in old, and no row came or went
OthersKept(tbl, old, id) ==
    /\ DOMAIN tbl = DOMAIN old
    /\ \A k \in DOMAIN tbl : k # id => tbl[k] = old[k]

\* C11: update_column / update_card on an existing row gives each field the input
\* supplies the supplied value and sets updated_at to the time of the call; the
\* fields not supplied, the parent reference and created_at keep their values, and
\* no other row of any table changes.
C11_UpdateChangesSuppliedOnly ==
    /\ (ret.op = "update_column" /\ ret.ok) =>
           LET old == ret.pre.columns[ret.id]
               new == db.columns[ret.id]
           IN  /\ new.name = unwrap_or(ret.input.name, old.name)
               /\ new.order = unwrap_or(ret.input.order, old.order)
               /\ new.archived = unwrap_or(ret.input.archived, old.archived)
               /\ new.updated_at = ret.now
               /\ new.board_id = old.board_id /\ new.created_at = old.created_at
               /\ OthersKept(db.columns, ret.pre.columns, ret.id)
               /\ db.boards = ret.pre.boards /\ db.cards = ret.pre.cards
    /\ (ret.op = "update_card" /\ ret.ok) =>
           LET old == ret.pre.cards[ret.id]
               new == db.cards[ret.id]
           IN  /\ new.title = unwrap_or(ret.input.title, old.title)
               /\ new.description = IF ret.input.description = None
                                    THEN old.description ELSE ret.input.description
               /\ new.order = unwrap_or(ret.input.order, old.order)
               /\ new.archived = unwrap_or(ret.input.archived, old.archived)
               /\ new.updated_at = ret.now
               /\ new.column_id = old.column_id /\ new.created_at = old.created_at
               /\ OthersKept(db.cards, ret.pre.cards, ret.id)
               /\ db.boards = ret.pre.boards /\ db.columns = ret.pre.columns

\* update_card gave a card a new title and nothing else, at a later time than the
\* card's last update, while its column held another card
C11_Witness ==
    /\ ret.op = "update_card" /\ ret.ok
    /\ ret.input.title # None /\ ret.input.title # Some(ret.pre.cards[ret.id].title)
    /\ ret.input.order = None /\ ret.input.archived = None /\ ret.input.description = None
    /\ ret.now > ret.pre.cards[ret.id].updated_at
    /\ \E k \in DOMAIN db.cards : k # ret.id

\* C12: set_last_opened_board(id) changes last_opened_at of board id and nothing
\* else: the board's name, created_at and updated_at, the other boards, and all
\* columns and cards are as before.
C12_OpenedChangesLastOpenedOnly ==
    ret.op = "set_last_opened_board" =>
        /\ db.columns = ret.pre.columns /\ db.cards = ret.pre.cards
        /\ OthersKept(db.boards, ret.pre.boards, ret.id)
        /\ ret.id \in DOMAIN db.boards =>
               /\ db.boards[ret.id].last_opened_at = Some(ret.now)
               /\ db.boards[ret.id].name = ret.pre.boards[ret.id].name
               /\ db.boards[ret.id].created_at = ret.pre.boards[ret.id].created_at
               /\ db.boards[ret.id].updated_at = ret.pre.boards[ret.id].updated_at

\* a board was opened later than it was last updated, next to another board
C12_Witness ==
    /\ ret.op = "set_last_opened_board" /\ ret.ok
    /\ ret.id \in DOMAIN db.boards
    /\ db.boards[ret.id].last_opened_at = Some(ret.now)
    /\ ret.pre.boards[ret.id].last_opened_at # Some(ret.now)
    /\ ret.now > db.boards[ret.id].updated_at
    /\ \E k \in DOMAIN db.boards : k # ret.id

\* the names the ledger rows hold
Recorded(l) == {l[r].name : r \in DOMAIN l}
\* the objects the script of migration i makes
ObjectsOf(i) == {MIGRATIONS[i].sql[j] : j \in DOMAIN MIGRATIONS[i].sql}

\* C13: on a store whose ledger records every migration, no step of run_migrations
\* changes the schema, the user data or the ledger, no migration script is entered
\* (nor its record inserted), and each migration name is in the ledger once; this
\* for every run, however many have gone before.
C13_RerunIsNoOp ==
    [][(\A i \in DOMAIN MIGRATIONS : MIGRATIONS[i].name \in Recorded(ledger)) =>
          /\ schema' = schema /\ ledger' = ledger /\ db' = db
          /\ mig'.pc \notin {"batch", "record"}
          /\ \A i \in DOMAIN MIGRATIONS :
                 Cardinality({r \in DOMAIN ledger' : ledger'[r].name = MIGRATIONS[i].name}) = 1
      ]_vars

\* run_migrations has returned Ok for at least the second time on a store that
\* holds user data and records every migration
C13_Witness ==
    /\ mig.pc = "idle" /\ mig.res = "ok" /\ mig.runs >= 2
    /\ \A i \in DOMAIN MIGRATIONS : MIGRATIONS[i].name \in Recorded(ledger)
    /\ db # EmptyDb

\* C14: whenever run_migrations is not running (it has returned Ok or Err), for
\* each migration either its name is in the ledger and all the objects of its
\* script exist, or its name is not in the ledger and none of them exists.
C14_ScriptAndRecordAtomic ==
    mig.pc = "idle" =>
        \A i \in DOMAIN MIGRATIONS :
            IF MIGRATIONS[i].name \in Recorded(ledger)
            THEN ObjectsOf(i) \subseteq schema
            ELSE ObjectsOf(i) \cap schema = {}

\* the n names of `names` that come first in descending file name order
FirstDescending(names, n) ==
    {a \in names : Cardinality({b \in names : FilenameLess(a, b)}) < n}

\* C15: cleanup_old_backups(keep_count = N) on a directory of M > N snapshot (.db)
\* files removes M - N of them, returns M - N and leaves the N that come first in
\* descending file name order; with M <= N it removes nothing and returns 0. The
\* retention of a launch does the same with N = 7 once the startup snapshot is
\* written.
C15_CleanupKeepsFirstN ==
    /\ bret.op = "cleanup_old_backups" =>
           LET had == DOMAIN bret.pre.db
               M == Cardinality(had)
               N == bret.keep_count
           IN  IF M > N
               THEN /\ DOMAIN bdir.db = FirstDescending(had, N)
                    /\ Cardinality(DOMAIN bdir.db) = N
                    /\ Cardinality(had \ DOMAIN bdir.db) = M - N
                    /\ bret.deleted = M - N
               ELSE /\ DOMAIN bdir.db = had
                    /\ bret.deleted = 0
    /\ (bret.op = "launch" /\ bret.had_store) =>
           LET had == DOMAIN bret.pre.db \cup {bret.name}
           IN  IF Cardinality(had) > KeepStartup
               THEN /\ DOMAIN bdir.db = FirstDescending(had, KeepStartup)
                    /\ Cardinality(DOMAIN bdir.db) = KeepStartup
               ELSE DOMAIN bdir.db = had

\* the command kept one of at least three snapshots of both kinds
C15_Witness ==
    /\ bret.op = "cleanup_old_backups"
    /\ bret.keep_count = 1 /\ bret.deleted >= 2
    /\ \E a, b \in DOMAIN bret.pre.db : a.kind = "backup" /\ b.kind = "startup"
    /\ Cardinality(DOMAIN bdir.db) = 1

\* C16: list_backups returns the snapshots newest first: of two snapshots written
\* since the start of the run, by create_backup or by a launch, the one listed
\* first is the one written later.
C16_ListIsNewestFirst ==
    bret.op = "list_backups" =>
        \A i, j \in DOMAIN bret.list :
            (/\ i < j
             /\ bdir.db[bret.list[i].filename].made > 0
             /\ bdir.db[bret.list[j].filename].made > 0)
            => bdir.db[bret.list[i].filename].made > bdir.db[bret.list[j].filename].made

\* C17: after create_backup on an existing store the snapshot file is there and
\* not empty, and its name is greater than the name of every create_backup
\* snapshot the directory held before, so none of them was overwritten.
C17_BackupNameAfterEarlier ==
    (bret.op = "create_backup" /\ store.exists) =>
        /\ bret.name \in DOMAIN bdir.db
        /\ bdir.db[bret.name].size > 0
        /\ \A n \in DOMAIN bret.pre.db :
               n.kind = "backup" => FilenameLess(n, bret.name)

\* C18: no caller is still blocked in lock() behind another caller's operation
\* once it has waited longer than the busy timeout (by then it has got a contention
\* error).
C18_WaitEndsAtBusyTimeout ==
    \A t \in Threads : (gpc[t] = "lock" /\ mutex # 0) => gwait[t] <= BusyTimeout

\* C19: create_column naming a board that does not exist, create_card naming a
\* column that does not exist and move_card to a column that does not exist return
\* an error and leave the store as it was.
C19_MissingParentRefused ==
    /\ (ret.op = "create_column" /\ ret.input.board_id \notin DOMAIN ret.pre.boards) =>
           ~ret.ok /\ db = ret.pre
    /\ (ret.op = "create_card" /\ ret.input.column_id \notin DOMAIN ret.pre.columns) =>
           ~ret.ok /\ db = ret.pre
    /\ (ret.op = "move_card" /\ ret.input.column_id \notin DOMAIN ret.pre.columns) =>
           ~ret.ok /\ db = ret.pre

\* create_card without an order, naming a column that is not there while the store
\* holds other cards, was refused
C19_Witness ==
    /\ ret.op = "create_card" /\ ~ret.ok
    /\ ret.input.order = None
    /\ ret.input.column_id \notin DOMAIN ret.pre.columns
    /\ DOMAIN ret.pre.cards # {}
    /\ db = ret.pre

\* C20: get_cards_for_board(b) returns, each once and in ascending order of
\* "order", exactly the cards that are not archived and whose column is a column
\* of b, archived or not.
C20_BoardCardsIgnoreColumnArchive ==
    \A b \in BoardIds : \A s \in get_cards_for_board(db, b) :
        /\ Range(s) = {k \in DOMAIN db.cards :
                          /\ ~db.cards[k].archived
                          /\ \E col \in ColumnsOf(db, b) : db.cards[k].column_id = col}
        /\ Len(s) = Cardinality(Range(s))
        /\ \A i, j \in DOMAIN s : i < j => db.cards[s[i]].order <= db.cards[s[j]].order

\* the listing of a board holds two cards with different orders, one of them in
\* an archived column
C20_Witness ==
    \E b \in BoardIds : \E s \in get_cards_for_board(db, b) :
        /\ Len(s) = 2
        /\ db.cards[s[1]].order < db.cards[s[2]].order
        /\ \E i \in DOMAIN s : db.columns[db.cards[s[i]].column_id].archived

\* the pairs of `updates` that name row k
PairsOf(updates, k) == {i \in DOMAIN updates : updates[i].id = k}
\* the order the last pair of `updates` naming row k gives
LastOrder(updates, k) ==
    updates[CHOOSE i \in PairsOf(updates, k) : \A j \in PairsOf(updates, k) : j <= i].order
\* tbl is old with each row some pair names given the order of the last such pair
\* and updated_at = now, and nothing else changed
BatchApplied(tbl, old, updates, now) ==
    /\ DOMAIN tbl = DOMAIN old
    /\ \A k \in DOMAIN tbl :
           tbl[k] = IF PairsOf(updates, k) = {} THEN old[k]
                    ELSE [old[k] EXCEPT !.order = LastOrder(updates, k),
                                        !.updated_at = now]
\* the store after the pairs of `updates` went, in sequence, through update_column
\* as {order} alone, a pair whose id is missing changing nothing
RECURSIVE ColumnOrdersOneByOne(_, _, _)
ColumnOrdersOneByOne(d, updates, now) ==
    IF updates = <<>> THEN d
    ELSE ColumnOrdersOneByOne(
             update_column_closure(d, Head(updates).id,
                 [name |-> None, order |-> Some(Head(updates).order), archived |-> None],
                 now).db,
             Tail(updates), now)
\* the same through update_card
RECURSIVE CardOrdersOneByOne(_, _, _)
CardOrdersOneByOne(d, updates, now) ==
    IF updates = <<>> THEN d
    ELSE CardOrdersOneByOne(
             update_card_closure(d, Head(updates).id,
                 [title |-> None, description |-> None,
                  order |-> Some(Head(updates).order), archived |-> None],
                 now).db,
             Tail(updates), now)

\* C24: reorder_columns / batch_update_card_orders returns Ok and leaves the store
\* that applying its {id, order} pairs one at a time, in sequence, as single order
\* updates leaves: a pair whose id is missing changes nothing, the last pair of a
\* repeated id wins, and only order and updated_at of the rows named change.
C24_BatchIsSequence ==
    /\ ret.op = "reorder_columns" =>
           /\ ret.ok
           /\ db = ColumnOrdersOneByOne(ret.pre, ret.input, ret.now)
           /\ BatchApplied(db.columns, ret.pre.columns, ret.input, ret.now)
           /\ db.boards = ret.pre.boards /\ db.cards = ret.pre.cards
    /\ ret.op = "batch_update_card_orders" =>
           /\ ret.ok
           /\ db = CardOrdersOneByOne(ret.pre, ret.input, ret.now)
           /\ BatchApplied(db.cards, ret.pre.cards, ret.input, ret.now)
           /\ db.boards = ret.pre.boards /\ db.columns = ret.pre.columns

\* reorder_columns got two pairs for the same column with different orders: the
\* column has the order of the second pair, and another column kept its row
C24_Witness ==
    /\ ret.op = "reorder_columns" /\ ret.ok
    /\ Len(ret.input) = 2
    /\ ret.input[1].id = ret.input[2].id
    /\ ret.input[1].order # ret.input[2].order
    /\ ret.input[1].id \in DOMAIN ret.pre.columns
    /\ ret.pre.columns[ret.input[1].id].order # ret.input[2].order
    /\ db.columns[ret.input[1].id].order = ret.input[2].order
    /\ \E k \in DOMAIN db.columns :
           k # ret.input[1].id /\ db.columns[k] = ret.pre.columns[k]

\* the board of the column of card k in store d
BoardOfCard(d, k) == d.columns[d.cards[k].column_id].board_id
\* the last command was move_card of a card that was there to a column that was
\* there and belongs to another board than the card's column
MovedAcrossBoards ==
    /\ ret.op = "move_card"
    /\ ret.id \in DOMAIN ret.pre.cards
    /\ ret.input.column_id \in DOMAIN ret.pre.columns
    /\ ret.pre.columns[ret.input.column_id].board_id # BoardOfCard(ret.pre, ret.id)

\* C25 as stated: move_card to a column of another board succeeds, and afterwards
\* get_cards_for_board lists the card for the target board and not for the source
\* board.
C25_CrossBoardMoveAsStated ==
    MovedAcrossBoards =>
        /\ ret.ok
        /\ \A s \in get_cards_for_board(db, ret.pre.columns[ret.input.column_id].board_id) :
               ret.id \in Range(s)
        /\ \A s \in get_cards_for_board(db, BoardOfCard(ret.pre, ret.id)) :
               ret.id \notin Range(s)

\* C25 amended: move_card to a column of another board succeeds; afterwards
\* get_cards_for_board does not list the card for the source board, and lists it
\* for the target board exactly when the card is not archived.
C25_CrossBoardMove ==
    MovedAcrossBoards =>
        /\ ret.ok
        /\ db.cards[ret.id].column_id = ret.input.column_id
        /\ \A s \in get_cards_for_board(db, ret.pre.columns[ret.input.column_id].board_id) :
               ret.id \in Range(s) <=> ~ret.pre.cards[ret.id].archived
        /\ \A s \in get_cards_for_board(db, BoardOfCard(ret.pre, ret.id)) :
               ret.id \notin Range(s)

\* an active card the source board listed was moved to a column of another board,
\* and the target board lists it
C25_Witness ==
    /\ MovedAcrossBoards /\ ret.ok
    /\ ~ret.pre.cards[ret.id].archived
    /\ \E s \in get_cards_for_board(ret.pre, BoardOfCard(ret.pre, ret.id)) :
           ret.id \in Range(s)
    /\ \E s \in get_cards_for_board(db, ret.pre.columns[ret.input.column_id].board_id) :
           ret.id \in Range(s)

\* C26: delete_column(c) removes column c and exactly the cards whose column_id is
\* c, archived or not; every board, every other column and every card of another
\* column are as they were.
C26_DeleteColumnRemovesItsCards ==
    ret.op = "delete_column" =>
        /\ ret.ok
        /\ db.boards = ret.pre.boards
        /\ DOMAIN db.columns = DOMAIN ret.pre.columns \ {ret.id}
        /\ \A k \in DOMAIN db.columns : db.columns[k] = ret.pre.columns[k]
        /\ DOMAIN db.cards = DOMAIN ret.pre.cards \ CardsOf(ret.pre, ret.id)
        /\ \A k \in DOMAIN db.cards : db.cards[k] = ret.pre.cards[k]

\* delete_column removed a column that held an archived and an active card, while
\* another column stayed
C26_Witness ==
    /\ ret.op = "delete_column" /\ ret.ok
    /\ ret.id \in DOMAIN ret.pre.columns
    /\ \E k \in CardsOf(ret.pre, ret.id) : ret.pre.cards[k].archived
    /\ \E k \in CardsOf(ret.pre, ret.id) : ~ret.pre.cards[k].archived
    /\ DOMAIN db.columns # {}
    /\ DOMAIN db.cards = {}

\* C27: within one ordering scope, the columns of a board or the cards of a
\* column, no two rows have the same order.
C27_OrdersDistinctInScope ==
    /\ \A b \in DOMAIN db.boards : \A j, k \in ColumnsOf(db, b) :
           j # k => db.columns[j].order # db.columns[k].order
    /\ \A col \in DOMAIN db.columns : \A j, k \in CardsOf(db, col) :
           j # k => db.cards[j].order # db.cards[k].order

\* C28: update_board, update_column, update_card and move_card called with an id
\* that matches no row return an error and leave the store as it was.
C28_MissingIdRefused ==
    /\ (ret.op = "update_board" /\ ret.id \notin DOMAIN ret.pre.boards) =>
           ~ret.ok /\ db = ret.pre
    /\ (ret.op = "update_column" /\ ret.id \notin DOMAIN ret.pre.columns) =>
           ~ret.ok /\ db = ret.pre
    /\ (ret.op \in {"update_card", "move_card"} /\ ret.id \notin DOMAIN ret.pre.cards) =>
           ~ret.ok /\ db = ret.pre

\* update_board with a new name for an id that matches none of the boards of a
\* store that holds a board was refused
C28_Witness ==
    /\ ret.op = "update_board" /\ ~ret.ok
    /\ ret.input.name # None
    /\ ret.id \notin DOMAIN ret.pre.boards
    /\ DOMAIN ret.pre.boards # {}
    /\ db = ret.pre

\* every migration of MIGRATIONS has run on the store: its objects are there and
\* the ledger holds its name
MigrationsComplete == schema = FullSchema /\ Recorded(ledger) = Recorded(FullLedger)

\* C21: on a launch that found kanban.db, Database::new is entered only when the
\* startup snapshot of this launch is in the backups directory and the retention
\* has left at most 7 snapshot files there, and the two write the directory while
\* the store is neither opened nor migrated; the migrations run only after the
\* store was opened, and the database is registered only when run_migrations has
\* returned Ok with every migration applied.
C21_SnapshotRetentionOpenRegister ==
    [][/\ (setup.pc = "open" /\ setup.had_store) =>
              /\ setup.name # None
              /\ setup.name[1] \in DOMAIN bdir.db
              /\ bdir.db[setup.name[1]].made = bseq
              /\ Cardinality(DOMAIN bdir.db) <= KeepStartup
              /\ bdir' = bdir
       /\ bdir' # bdir =>
              /\ setup.pc \in {"snapshot", "retention"}
              /\ store' = store /\ schema' = schema /\ ledger' = ledger
       /\ (schema' # schema \/ ledger' # ledger) =>
              setup.pc = "migrating" /\ store.wal /\ app = "down"
       /\ (app = "down" /\ app' = "up") =>
              mig.pc = "idle" /\ mig.res = "ok" /\ MigrationsComplete]_vars

\* a launch that found kanban.db and eight snapshots of earlier sessions has
\* registered the database: its startup snapshot is one of the seven snapshot
\* files the retention left
C21_Witness ==
    /\ app = "up" /\ setup.had_store
    /\ setup.name # None /\ setup.name[1] \in DOMAIN bdir.db
    /\ Cardinality(bdir.wal) = MaxPast
    /\ Cardinality(DOMAIN bdir.db) = KeepStartup
    /\ MigrationsComplete

\* C22: a launch in which Database::new or a statement of run_migrations failed
\* ends without registering the database and without calling run_migrations again
\* (no launch calls it twice); the database is registered, and a command is invoked
\* or returns, only on a store on which every migration has been applied.
C22_FailedSetupRegistersNothing ==
    /\ app = "up" => MigrationsComplete /\ store.exists
    /\ ret # NoRet => app = "up" /\ MigrationsComplete
    /\ mig.res = "err" => app = "down"
    /\ mig.runs <= setup.launches
    /\ app = "down" => ops = 0 /\ db = EmptyDb

\* run_migrations failed inside the script of a migration: some of its objects are
\* there, its name is not in the ledger, setup has ended and nothing is registered
C22_Witness ==
    /\ mig.res = "err" /\ setup.pc = "idle" /\ app = "down"
    /\ setup.launches > 0
    /\ "boards" \in schema /\ "cards" \notin schema
    /\ ledger = <<>>

\* C29: every -wal or -shm side file of the backups directory has its snapshot
\* (.db) file in the directory.
C29_NoOrphanedSideFiles ==
    \A n \in bdir.wal \cup bdir.shm : n \in DOMAIN bdir.db

\* the snapshot files of directory d past the first keep_count in descending file
\* name order
BeyondKeep(d, keep_count) == DOMAIN d.db \ FirstDescending(DOMAIN d.db, keep_count)

\* C23: cleanup_old_backups on a directory where removing some files fails removes
\* every snapshot file past the keep-count whose removal does not fail, whichever
\* removals failed before it, and returns Ok with the number of snapshot (.db)
\* files that are gone from the directory.
C23_CleanupGoesOnAfterFailure ==
    bret.op = "cleanup_old_backups" =>
        /\ DOMAIN bdir.db =
               DOMAIN bret.pre.db \ (BeyondKeep(bret.pre, bret.keep_count) \ bret.fails)
        /\ bret.deleted = Cardinality(DOMAIN bret.pre.db \ DOMAIN bdir.db)

\* the removal of one snapshot past the keep-count failed, an older one was
\* removed after it, and the count returned is that of the files removed
C23_Witness ==
    /\ bret.op = "cleanup_old_backups"
    /\ \E f \in BeyondKeep(bret.pre, bret.keep_count) \cap bret.fails :
       \E g \in BeyondKeep(bret.pre, bret.keep_count) \ bret.fails :
           /\ FilenameLess(g, f)
           /\ f \in DOMAIN bdir.db /\ g \notin DOMAIN bdir.db
    /\ bret.deleted >= 1
    /\ bret.deleted < Cardinality(BeyondKeep(bret.pre, bret.keep_count))

\* C30: after create_backup has returned a path, a snapshot file is in the backups
\* directory under that name, whether or not kanban.db existed at the call.
C30_ReturnedPathHasFile ==
    bret.op = "create_backup" => bret.name \in DOMAIN bdir.db

=============================================================================
